---- MODULE Spec2Model ----
(***************************************************************************)
(* Frost crystal growth (src/components/FrostCanvas.tsx): the branch       *)
(* growth step, the seed generator, the per-frame simulation loop and the  *)
(* pointer-to-seed bridge.                                                 *)
(*                                                                         *)
(* Numbers are fixed point.  Lengths and coordinates are in 1/PX of a      *)
(* pixel, angles in 1/RAD of a radian, alpha in 1/ALPHA_ONE, line widths   *)
(* in 1/WIDTH_ONE of a pixel.  Math.random() is a generator with an        *)
(* unknown seed: rng is its state and the value it returns is              *)
(* rng / RAND_MOD, in [0, 1).                                              *)
(***************************************************************************)
EXTENDS Integers, Sequences, FiniteSets, TLC

\* ---------------------------------------------------------------- units
PX == 100
RAD == 1000
ALPHA_ONE == 1000000
WIDTH_ONE == 1000000
PI == 3142
TWO_PI == 6283
HALF_PI == 1571

\* ------------------------------------------------------ program constants
GROW_SPEED == 7
SPAWN_DIST == 13
MAX_DEPTH == 4
\* nextBranchIn = Infinity: larger than every length, and absorbing under -
Infinity == 1000000000

\* ------------------------------------------------------------ model bounds
\* seeds of Math.random tried
NumSeeds == 2
\* Spec: input events in a run, and the age of the growth (in frames) up to
\* which they arrive; growth then runs to its end
MaxInputs == 2
LateWindow == 3
\* StrokeSpec: input events in a run, and the frames growth is followed for
MaxStrokeInputs == 3
MaxStrokeFrames == 2

\* frames is not counted past the point where the bounds stop reading it
FrameCap == LateWindow + MaxStrokeFrames + 1

\* ------------------------------------------------------------ Math.random
RAND_MOD == 64
RAND_INC == 39
SEED_STRIDE == 17

\* the k-th state after r, and the value in [0,1) * RAND_MOD drawn there
Draw(r, k) == (r + k * RAND_INC) % RAND_MOD
\* lo + Math.random() * span, for lo and span given in some fixed-point unit
Uniform(r, k, lo, span) == lo + (Draw(r, k) * span) \div RAND_MOD
\* Math.random() > num/den
RandomAbove(r, k, num, den) == Draw(r, k) * den > num * RAND_MOD

\* ------------------------------------------------------------------ Math
Min(a, b) == IF a <= b THEN a ELSE b
Abs(a) == IF a < 0 THEN -a ELSE a
FMul(a, b) == (a * b) \div RAD

\* the cosine series in x2 = x * x, for x in [-pi/2, pi/2]
CosSeries(x2) ==
  RAD - (x2 - FMul(x2, x2 - FMul(x2, x2 - (x2 * x2) \div (56 * RAD)) \div 30) \div 12) \div 2

\* the cosine of y in [0, 2 pi)
CosReduced(y) ==
  IF y <= HALF_PI THEN CosSeries(FMul(y, y))
  ELSE IF y <= PI + HALF_PI THEN -CosSeries(FMul(y - PI, y - PI))
  ELSE CosSeries(FMul(y - TWO_PI, y - TWO_PI))

Cos(a) == CHOOSE c \in {CosReduced(y) : y \in {a % TWO_PI}} : TRUE

Sin(a) == Cos(a - HALF_PI)

\* Math.hypot on fixed-point arguments, rounded down
Hypot(dx, dy) ==
  LET n == dx * dx + dy * dy
  IN CHOOSE k \in (IF Abs(dx) >= Abs(dy) THEN Abs(dx) ELSE Abs(dy))..(Abs(dx) + Abs(dy)) :
        k * k <= n /\ n < (k + 1) * (k + 1)

\* a - s on numbers that may be Infinity
Minus(a, s) == IF a = Infinity THEN Infinity ELSE a - s

\* --------------------------------------------------------------- Branch
Branch(x, y, angle, curlRate, remaining, nextBranchIn, alpha, lineWidth, depth) ==
  [x |-> x, y |-> y, angle |-> angle, curlRate |-> curlRate,
   remaining |-> remaining, nextBranchIn |-> nextBranchIn,
   alpha |-> alpha, lineWidth |-> lineWidth, depth |-> depth]

\* ----------------------------------------------------------- seedCrystal
\* draws: 1 for numArms, then 5 per arm (jitter, curlSign, length,
\* curl magnitude, fork fraction)
\* one arm too many for the largest draws
NumArms_upToSeven(r) == 3 + (Draw(r, 0) * 5) \div RAND_MOD

NumArms(r) == 3 + (Draw(r, 0) * 4) \div RAND_MOD

SeedArm(x, y, r, i, numArms) ==
  LET k == 1 + 5 * i
      angle == (i * TWO_PI) \div numArms + Uniform(r, k, -(RAD \div 4), RAD \div 2)
      curlSign == IF RandomAbove(r, k + 1, 1, 2) THEN 1 ELSE -1
      length == Uniform(r, k + 2, 55 * PX, 70 * PX)
      curlMag == Uniform(r, k + 3, 18, 22)
      frac == Uniform(r, k + 4, 220, 200)
  IN Branch(x, y, angle, curlSign * curlMag, length, (length * frac) \div 1000,
            (88 * ALPHA_ONE) \div 100, (15 * WIDTH_ONE) \div 10, MAX_DEPTH)

seedCrystal(x, y, r) ==
  LET numArms == NumArms(r)
  IN [branches |-> [i \in 1..numArms |-> SeedArm(x, y, r, i - 1, numArms)],
      rng |-> Draw(r, 1 + 5 * numArms)]

\* --------------------------------------------------------------- advance
\* The sides a fork sprouts on, and the number of draws choosing them took
ForkSides(r) ==
  IF RandomAbove(r, 0, 1, 4) THEN [sides |-> <<-1, 1>>, used |-> 1]
  ELSE [sides |-> <<IF RandomAbove(r, 1, 1, 2) THEN 1 ELSE -1>>, used |-> 2]

\* a child that is given its parent's depth
ForkChild_sameDepth(p, side, r, k) ==
  LET childLen == (p.remaining * Uniform(r, k + 1, 480, 220)) \div 1000
  IN Branch(p.x, p.y, p.angle + side * (PI \div 3 + Uniform(r, k, -275, 550)),
            Uniform(r, k + 2, -21, 42), childLen,
            (childLen * Uniform(r, k + 3, 280, 320)) \div 1000,
            (p.alpha * 72) \div 100, (p.lineWidth * 62) \div 100, p.depth)

\* a child two levels below its parent
ForkChild_twoDown(p, side, r, k) ==
  LET childLen == (p.remaining * Uniform(r, k + 1, 480, 220)) \div 1000
  IN Branch(p.x, p.y, p.angle + side * (PI \div 3 + Uniform(r, k, -275, 550)),
            Uniform(r, k + 2, -21, 42), childLen,
            (childLen * Uniform(r, k + 3, 280, 320)) \div 1000,
            (p.alpha * 72) \div 100, (p.lineWidth * 62) \div 100, p.depth - 2)

\* One child of the stepped parent p on the given side; its draws start at k
ForkChild(p, side, r, k) ==
  LET spread == PI \div 3 + Uniform(r, k, -275, 550)
      childLen == (p.remaining * Uniform(r, k + 1, 480, 220)) \div 1000
      curlRate == Uniform(r, k + 2, -21, 42)
      frac == Uniform(r, k + 3, 280, 320)
  IN Branch(p.x, p.y, p.angle + side * spread, curlRate, childLen,
            (childLen * frac) \div 1000,
            (p.alpha * 72) \div 100, (p.lineWidth * 62) \div 100, p.depth - 1)

\* the fork condition without the countdown having been positive before
Forks_noCrossing(prevNext, p) ==
  p.nextBranchIn <= 0 /\ p.depth > 1 /\ p.remaining > 6 * PX

\* the fork condition without its depth guard
Forks_anyDepth(prevNext, p) ==
  prevNext > 0 /\ p.nextBranchIn <= 0 /\ p.remaining > 6 * PX

\* The fork condition of line 77: prevNext is the countdown before the step,
\* p the branch after it
Forks(prevNext, p) ==
  prevNext > 0 /\ p.nextBranchIn <= 0 /\ p.depth > 1 /\ p.remaining > 6 * PX

\* the effective step without the clamp to what is left of the branch
EffectiveStep_unclamped(b, step) == step

\* the effective step of line 50
EffectiveStep(b, step) == Min(step, b.remaining)

\* a step that also fades and thins the branch
Stepped_fading(b, s) ==
  LET newAngle == b.angle + (b.curlRate * s) \div PX
      midAngle == (b.angle + newAngle) \div 2
  IN [b EXCEPT !.remaining = @ - s,
               !.nextBranchIn = Minus(@, s),
               !.x = @ + (Cos(midAngle) * s) \div RAD,
               !.y = @ + (Sin(midAngle) * s) \div RAD,
               !.angle = newAngle,
               !.alpha = (@ * 72) \div 100,
               !.lineWidth = (@ * 62) \div 100]

\* The branch after lines 54-57 and 69-73 moved it by s along its curl
Stepped(b, s) ==
  LET newAngle == b.angle + (b.curlRate * s) \div PX
      midAngle == (b.angle + newAngle) \div 2
  IN [b EXCEPT !.remaining = @ - s,
               !.nextBranchIn = Minus(@, s),
               !.x = @ + (Cos(midAngle) * s) \div RAD,
               !.y = @ + (Sin(midAngle) * s) \div RAD,
               !.angle = newAngle]

\* a fork that always schedules another, however little is left
Sprout_alwaysAgain(prevNext, p, r) ==
  IF Forks(prevNext, p)
  THEN
    LET fs == ForkSides(r)
        n == Len(fs.sides)
        k == fs.used + 4 * n
    IN [b |-> [p EXCEPT !.nextBranchIn =
                 (p.remaining * Uniform(r, k, 350, 350)) \div 1000],
        children |-> [j \in 1..n |->
                        ForkChild(p, fs.sides[j], r, fs.used + 4 * (j - 1))],
        rng |-> Draw(r, k + 1),
        drew |-> 1]
  ELSE [b |-> p, children |-> <<>>, rng |-> r, drew |-> 1]

\* Lines 76-104 on the stepped branch p, prevNext being its countdown before
\* the step: the fork, if one is due, and the parent's next countdown
Sprout(prevNext, p, r) ==
  IF Forks(prevNext, p)
  THEN
    LET fs == ForkSides(r)
        n == Len(fs.sides)
        k == fs.used + 4 * n
        again == p.remaining > 14 * PX
    IN [b |-> [p EXCEPT !.nextBranchIn =
                 IF again THEN (p.remaining * Uniform(r, k, 350, 350)) \div 1000
                 ELSE Infinity],
        children |-> [j \in 1..n |->
                        ForkChild(p, fs.sides[j], r, fs.used + 4 * (j - 1))],
        rng |-> Draw(r, IF again THEN k + 1 ELSE k),
        drew |-> 1]
  ELSE [b |-> p, children |-> <<>>, rng |-> r, drew |-> 1]

\* advance(b, step, ctx) with the generator in state r.  Returns the branch as
\* the call leaves it, the children, the generator's next state and the number
\* of segments stroked on ctx.  The stepped branch is bound as a value, so
\* that it is computed once.
advance(b, step, r) ==
  IF EffectiveStep(b, step) <= 0
  THEN [b |-> b, children |-> <<>>, rng |-> r, drew |-> 0]
  ELSE CHOOSE res \in
         {Sprout(b.nextBranchIn, p, r) :
            p \in {Stepped(b, EffectiveStep(b, step))}} : TRUE

\* ----------------------------------------------------------------- state
VARIABLES
  branches,   \* branches.current: the live collection, in order
  drawing,    \* drawing.current
  lastPos,    \* lastPos.current: a point, or NoPos for null
  distAcc,    \* distAcc.current
  rng,        \* the state of Math.random
  canvas,     \* segments stroked on the surface since it was last filled with BG
  life,       \* per live branch: its length at creation, segments stroked so far
  calls,      \* the advance calls of the latest handler, in order
  dropped,    \* the branches the latest handler removed from the collection
  lastOp,     \* the latest handler
  rep,        \* whether the handler before it was the same one
  planted,    \* crystals planted so far
  created,    \* Branch objects created so far
  owed,       \* sum over the branches created of ceil(length / GROW_SPEED)
  stroke,     \* the current pointer stroke: its path length, planted before it
              \* began, and whether distAcc met SPAWN_DIST exactly at each plant
  inputs,     \* input events handled so far
  frames      \* frames since the collection was last empty

bridge == <<drawing, lastPos, distAcc>>
sim == <<branches, rng, canvas, life, created, owed>>
vars == <<branches, drawing, lastPos, distAcc, rng, canvas, life, calls, dropped,
          lastOp, rep, planted, created, owed, stroke, inputs, frames>>

NoPos == [x |-> -1, y |-> -1]
Point(x, y) == [x |-> x * PX, y |-> y * PX]
\* pointer samples (clientX, clientY)
Points == {Point(0, 0), Point(5, 0), Point(5, 12)}
\* the samples of a move: those, and one more than twice SPAWN_DIST away
StrokePoints == Points \cup {Point(5, 40)}
Seeds == {(k * SEED_STRIDE) % RAND_MOD : k \in 0..(NumSeeds - 1)}

Ceil(a, b) == (a + b - 1) \div b
Life(b) == [len0 |-> b.remaining, segs |-> 0]
Lives(bs) == [i \in DOMAIN bs |-> Life(bs[i])]
Gone(l, by) == [len0 |-> l.len0, segs |-> l.segs, by |-> by]
RECURSIVE Owed(_)
Owed(bs) ==
  IF bs = <<>> THEN 0
  ELSE Ceil(Head(bs).remaining, GROW_SPEED * PX) + Owed(Tail(bs))

Init ==
  /\ branches = <<>>
  /\ drawing = FALSE
  /\ lastPos = NoPos
  /\ distAcc = 0
  /\ rng \in Seeds
  /\ canvas = 0
  /\ life = <<>>
  /\ calls = <<>>
  /\ dropped = <<>>
  /\ lastOp = "mount"
  /\ rep = FALSE
  /\ planted = 0
  /\ created = 0
  /\ owed = 0
  /\ stroke = [dist |-> 0, base |-> 0, exact |-> FALSE]
  /\ inputs = 0
  /\ frames = 0

\* ------------------------------------------------------------------ tick
\* tick keeping a branch that has nothing left
Keeps_finished(b) == b.remaining >= 0

\* tick keeping only a branch with a whole step left
Keeps_wholeStep(b) == b.remaining >= GROW_SPEED * PX

\* whether tick keeps an advanced branch (line 161)
Keeps(b) == b.remaining > 0

\* the record of one advance call
Call(b, step, res) ==
  [before |-> b, step |-> step, after |-> res.b, children |-> res.children]

\* what one iteration of the loop body (lines 159-161) makes of acc, res being
\* what advance returned for branch b
Iterated(b, l0, acc, res) ==
  LET l == [l0 EXCEPT !.segs = @ + res.drew]
      kept == Keeps(res.b)
  IN [keep |-> IF kept THEN Append(acc.keep, res.b) ELSE acc.keep,
      keepLife |-> IF kept THEN Append(acc.keepLife, l) ELSE acc.keepLife,
      spawned |-> acc.spawned \o res.children,
      rng |-> res.rng,
      drew |-> acc.drew + res.drew,
      calls |-> Append(acc.calls, Call(b, GROW_SPEED * PX, res)),
      dropped |-> IF kept THEN acc.dropped
                  ELSE Append(acc.dropped, Gone(l, "tick"))]

\* The for loop of tick from branch i on; acc carries keep, spawned and the
\* generator through the iterations.  Each iteration's result is bound as a
\* value before the next one reads it.
RECURSIVE RunFrame(_, _)
RunFrame(i, acc) ==
  IF i > Len(branches) THEN acc
  ELSE CHOOSE out \in
         {RunFrame(j, next) :
            j \in {i + 1},
            next \in {Iterated(branches[i], life[i], acc, res) :
                        res \in {advance(branches[i], GROW_SPEED * PX, acc.rng)}}} : TRUE

\* a loop that passes over the first branch of the collection
Frame_skipsFirst(r) ==
  RunFrame(2,
    [keep |-> <<>>, keepLife |-> <<>>, spawned |-> <<>>, rng |-> r, drew |-> 0,
     calls |-> <<>>, dropped |-> <<>>])

\* the whole loop of lines 155-162, from the generator's state r
Frame(r) ==
  RunFrame(1,
    [keep |-> <<>>, keepLife |-> <<>>, spawned |-> <<>>, rng |-> r, drew |-> 0,
     calls |-> <<>>, dropped |-> <<>>])

Noted(op) ==
  /\ lastOp' = op
  /\ rep' = (lastOp = op)

tick ==
  /\ IF Len(branches) > 0
     THEN \E f \in {Frame(rng)} :
             /\ branches' = f.keep \o f.spawned
             /\ life' = f.keepLife \o Lives(f.spawned)
             /\ rng' = f.rng
             /\ canvas' = canvas + f.drew
             /\ calls' = f.calls
             /\ dropped' = f.dropped
             /\ created' = created + Len(f.spawned)
             /\ owed' = owed + Owed(f.spawned)
             /\ frames' = IF f.keep \o f.spawned = <<>> THEN 0
                          ELSE Min(frames + 1, FrameCap)
     ELSE /\ UNCHANGED <<sim, frames>>
          /\ calls' = <<>>
          /\ dropped' = <<>>
  /\ Noted("tick")
  /\ UNCHANGED <<bridge, planted, stroke, inputs>>

\* ----------------------------------------------------------------- plant
\* planting by assignment: the new crystal replaces the collection
plant_overwrites(p) ==
  \E sc \in {seedCrystal(p.x, p.y, rng)} :
     /\ branches' = sc.branches
     /\ life' = Lives(sc.branches)
     /\ rng' = sc.rng
     /\ created' = created + Len(sc.branches)
     /\ owed' = owed + Owed(sc.branches)
     /\ planted' = planted + 1
     /\ UNCHANGED canvas

plant(p) ==
  \E sc \in {seedCrystal(p.x, p.y, rng)} :
     /\ branches' = branches \o sc.branches
     /\ life' = life \o Lives(sc.branches)
     /\ rng' = sc.rng
     /\ created' = created + Len(sc.branches)
     /\ owed' = owed + Owed(sc.branches)
     /\ planted' = planted + 1
     /\ UNCHANGED canvas

NoPlant == UNCHANGED <<sim, planted>>

\* what every input handler does to the bookkeeping
Input(op) ==
  /\ inputs' = inputs + 1
  /\ calls' = <<>>
  /\ Noted(op)

Quiet ==
  /\ dropped' = <<>>
  /\ UNCHANGED frames

\* ------------------------------------------------------- pointer handlers
\* a start that leaves the accumulated distance as it finds it
handleDown_keepsDistance(p) ==
  /\ drawing' = TRUE
  /\ lastPos' = p
  /\ UNCHANGED distAcc
  /\ plant(p)
  /\ stroke' = [dist |-> 0, base |-> planted, exact |-> TRUE]
  /\ Quiet
  /\ Input("down")

handleDown(p) ==
  /\ drawing' = TRUE
  /\ lastPos' = p
  /\ distAcc' = 0
  /\ plant(p)
  /\ stroke' = [dist |-> 0, base |-> planted, exact |-> TRUE]
  /\ Quiet
  /\ Input("down")

\* handleMove without its first line
Tracking_unguarded == TRUE

\* whether handleMove goes past its first line
Tracking == drawing /\ lastPos # NoPos
\* planting only once the distance is past the threshold
Spawns_past(acc) == acc > SPAWN_DIST * PX

\* whether the accumulated distance plants a crystal (line 191)
Spawns(acc) == acc >= SPAWN_DIST * PX

\* a move that carries the distance past the threshold over to the next
handleMove_carriesExcess(p) ==
  /\ IF ~Tracking
     THEN /\ UNCHANGED <<bridge, stroke>>
          /\ NoPlant
     ELSE LET d == Hypot(p.x - lastPos.x, p.y - lastPos.y)
              acc == distAcc + d
          IN /\ IF Spawns(acc)
                THEN /\ plant(p)
                     /\ distAcc' = acc - SPAWN_DIST * PX
                     /\ stroke' = [stroke EXCEPT
                                     !.dist = @ + d,
                                     !.exact = @ /\ acc = SPAWN_DIST * PX]
                ELSE /\ NoPlant
                     /\ distAcc' = acc
                     /\ stroke' = [stroke EXCEPT !.dist = @ + d]
             /\ lastPos' = p
             /\ UNCHANGED drawing
  /\ Quiet
  /\ Input("move")

handleMove(p) ==
  /\ IF ~Tracking
     THEN /\ UNCHANGED <<bridge, stroke>>
          /\ NoPlant
     ELSE LET d == Hypot(p.x - lastPos.x, p.y - lastPos.y)
              acc == distAcc + d
          IN /\ IF Spawns(acc)
                THEN /\ plant(p)
                     /\ distAcc' = 0
                     /\ stroke' = [stroke EXCEPT
                                     !.dist = @ + d,
                                     !.exact = @ /\ acc = SPAWN_DIST * PX]
                ELSE /\ NoPlant
                     /\ distAcc' = acc
                     /\ stroke' = [stroke EXCEPT !.dist = @ + d]
             /\ lastPos' = p
             /\ UNCHANGED drawing
  /\ Quiet
  /\ Input("move")

handleUp ==
  /\ drawing' = FALSE
  /\ lastPos' = NoPos
  /\ UNCHANGED <<distAcc, stroke>>
  /\ NoPlant
  /\ Quiet
  /\ Input("up")

\* ----------------------------------------------------------------- clear
\* clear without line 207: the surface is repainted, the collection stays
clear_keepsBranches ==
  /\ canvas' = 0
  /\ dropped' = <<>>
  /\ frames' = 0
  /\ UNCHANGED <<branches, life, bridge, rng, created, owed, planted, stroke>>
  /\ Input("clear")

clear ==
  /\ branches' = <<>>
  /\ life' = <<>>
  /\ canvas' = 0
  /\ dropped' = [i \in DOMAIN life |-> Gone(life[i], "clear")]
  /\ frames' = 0
  /\ UNCHANGED <<bridge, rng, created, owed, planted, stroke>>
  /\ Input("clear")

\* Spec: a few input events, each while the collection is empty or young,
\* and the frame loop for as long as it takes
InputArrives == inputs < MaxInputs /\ frames <= LateWindow

Next ==
  \/ tick
  \/ InputArrives /\ \E p \in Points : handleDown(p)
  \/ InputArrives /\ \E p \in Points : handleMove(p)
  \/ InputArrives /\ handleUp
  \/ InputArrives /\ clear

Spec == Init /\ [][Next]_vars

\* the frame loop is rescheduled after every frame (line 166)
FairSpec == Spec /\ WF_vars(tick)

\* StrokeSpec: longer input sequences, over the first frames of growth
StrokeArrives == inputs < MaxStrokeInputs
FrameDue == branches = <<>> \/ frames < MaxStrokeFrames

StrokeNext ==
  \/ FrameDue /\ tick
  \/ StrokeArrives /\ \E p \in Points : handleDown(p)
  \/ StrokeArrives /\ \E p \in StrokePoints : handleMove(p)
  \/ StrokeArrives /\ handleUp
  \/ StrokeArrives /\ clear

StrokeSpec == Init /\ [][StrokeNext]_vars

\* AdvanceSpec: advance as a function, called once on any branch with any step
Lengths == {0, 3, 7, 10, 13, 20, 21, 30}
Countdowns == {-5 * PX, 0, 2 * PX, 7 * PX, 9 * PX, Infinity}
Steps == {-7, 0, 3, 7, 10}
Styles == {<<(88 * ALPHA_ONE) \div 100, (15 * WIDTH_ONE) \div 10>>, <<456192, 576600>>}
AdvanceInputs ==
  {Branch(0, 0, 0, c, len * PX, n, st[1], st[2], d) :
     c \in {-21, 30}, len \in Lengths, n \in Countdowns, st \in Styles,
     d \in 0..MAX_DEPTH}

callAdvance ==
  /\ calls = <<>>
  /\ \E b \in AdvanceInputs, step \in Steps :
    \E res \in {advance(b, step * PX, rng)} :
       /\ calls' = <<Call(b, step * PX, res)>>
       /\ rng' = res.rng
       /\ UNCHANGED <<branches, bridge, canvas, life, dropped, lastOp, rep, planted,
                      created, owed, stroke, inputs, frames>>

AdvanceSpec == Init /\ [][callAdvance]_vars

\* SeedSpec: seedCrystal as a function, called once (by a pointer down) at any
\* point and in any state of the generator
AllSeeds == 0..(RAND_MOD - 1)

SeedInit ==
  /\ branches = <<>>
  /\ drawing = FALSE
  /\ lastPos = NoPos
  /\ distAcc = 0
  /\ rng \in AllSeeds
  /\ canvas = 0
  /\ life = <<>>
  /\ calls = <<>>
  /\ dropped = <<>>
  /\ lastOp = "mount"
  /\ rep = FALSE
  /\ planted = 0
  /\ created = 0
  /\ owed = 0
  /\ stroke = [dist |-> 0, base |-> 0, exact |-> FALSE]
  /\ inputs = 0
  /\ frames = 0

callSeedCrystal ==
  /\ inputs = 0
  /\ \E p \in Points : handleDown(p)

SeedSpec == SeedInit /\ [][callSeedCrystal]_vars

Calls == {calls[i] : i \in DOMAIN calls}

TypeOK ==
  /\ drawing \in BOOLEAN
  /\ Len(life) = Len(branches)
  /\ planted <= inputs

\* ================================================================ claims
Children(c) == {c.children[j] : j \in DOMAIN c.children}

\* C1 as stated: after every advance call, whatever the branch and the step,
\* remaining is >= 0 and has strictly decreased by exactly
\* min(step, remaining before).
C1_AlwaysStrictDecrease ==
  \A c \in Calls :
    /\ c.after.remaining >= 0
    /\ c.after.remaining < c.before.remaining
    /\ c.before.remaining - c.after.remaining = Min(c.step, c.before.remaining)

\* C1 amended: after every advance call remaining is >= 0; when
\* min(step, remaining before) > 0 it has strictly decreased by exactly that
\* minimum, and otherwise (step <= 0, or nothing left) the call leaves the
\* branch as it was and returns no children.
C1_DecreaseByEffectiveStep ==
  \A c \in Calls :
    LET m == Min(c.step, c.before.remaining)
    IN /\ c.after.remaining >= 0
       /\ IF m > 0
          THEN /\ c.after.remaining < c.before.remaining
               /\ c.before.remaining - c.after.remaining = m
          ELSE c.after = c.before /\ c.children = <<>>

\* C1 witness: a call whose step is longer than what is left of the branch,
\* which takes the branch to 0
C1_Witness ==
  \E c \in Calls :
    /\ c.before.remaining > 0
    /\ c.step > c.before.remaining
    /\ c.after.remaining = 0

\* C4: a call on a branch with depth <= 1 returns no children, whatever its
\* countdown and its remaining length.
C4_NoForkAtDepthOne ==
  \A c \in Calls : c.before.depth <= 1 => c.children = <<>>

\* C4 witness: a branch with depth <= 1 whose countdown crosses 0 in the call
\* with more than 6 pixels left, and no child comes of it
C4_Witness ==
  \E c \in Calls :
    /\ c.before.depth <= 1
    /\ c.before.nextBranchIn > 0
    /\ c.after.nextBranchIn <= 0
    /\ c.after.remaining > 6 * PX
    /\ c.children = <<>>

\* C5: every child advance returns has the parent's depth less one, alpha and
\* lineWidth strictly below the parent's (the parent's times 0.72 and 0.62),
\* and starts at the parent's tip as the step left it.
C5_ChildOfParent ==
  \A c \in Calls : \A ch \in Children(c) :
    /\ ch.depth = c.before.depth - 1
    /\ ch.depth = c.after.depth - 1
    /\ ch.alpha < c.after.alpha
    /\ ch.alpha = (c.after.alpha * 72) \div 100
    /\ ch.lineWidth < c.after.lineWidth
    /\ ch.lineWidth = (c.after.lineWidth * 62) \div 100
    /\ ch.x = c.after.x
    /\ ch.y = c.after.y

\* C5 witness: a call that moved the tip and returned two children
C5_Witness ==
  \E c \in Calls :
    /\ Len(c.children) = 2
    /\ <<c.after.x, c.after.y>> # <<c.before.x, c.before.y>>

\* C2: every branch of the live collection has remaining > 0, and so has
\* every branch passed to advance: a branch at 0 is neither kept nor advanced
\* again.
C2_LiveBranchesHaveLength ==
  /\ \A i \in DOMAIN branches : branches[i].remaining > 0
  /\ \A c \in Calls : c.before.remaining > 0

\* C2 witness: a frame in which some branch reached 0 and was dropped while
\* others, children among them, live on
C2_Witness ==
  /\ lastOp = "tick"
  /\ \E c \in Calls : c.after.remaining = 0
  /\ \E c \in Calls : c.children # <<>>
  /\ branches # <<>>

\* C3: with the frame loop kept scheduled, a non-empty collection becomes
\* empty (the input events of a run are finitely many).
C3_GrowthTerminates == (branches # <<>>) ~> (branches = <<>>)

\* C3 witness: a frame empties the collection of a crystal that forked
C3_Witness ==
  /\ lastOp = "tick"
  /\ branches = <<>>
  /\ dropped # <<>>
  /\ created > 6 * planted

\* C6 as stated: every branch removed from the live collection has stroked
\* exactly ceil(L / GROW_SPEED) segments, L its length at creation.
C6_SegmentsAtRemoval ==
  \A i \in DOMAIN dropped :
    dropped[i].segs = Ceil(dropped[i].len0, GROW_SPEED * PX)

\* C6 amended: a live branch has stroked one segment of GROW_SPEED pixels per
\* frame since it entered the collection, and a branch that a frame removes
\* has stroked exactly ceil(L / GROW_SPEED) segments; a branch that clear
\* removes has stroked fewer.
C6_SegmentsPerBranch ==
  /\ \A i \in DOMAIN branches :
       /\ life[i].segs * GROW_SPEED * PX + branches[i].remaining = life[i].len0
       /\ life[i].segs < Ceil(life[i].len0, GROW_SPEED * PX)
  /\ \A i \in DOMAIN dropped :
       IF dropped[i].by = "tick"
       THEN dropped[i].segs = Ceil(dropped[i].len0, GROW_SPEED * PX)
       ELSE dropped[i].segs < Ceil(dropped[i].len0, GROW_SPEED * PX)

\* C6 witness: a frame removes a branch whose length is no multiple of the
\* step, after more than one segment
C6_Witness ==
  \E i \in DOMAIN dropped :
    /\ dropped[i].by = "tick"
    /\ dropped[i].segs > 1
    /\ dropped[i].len0 % (GROW_SPEED * PX) # 0

\* the end-to-end run: one crystal planted by the only input event, and the
\* frame loop run until the collection is empty
EndToEnd == inputs = 1 /\ planted = 1 /\ lastOp = "tick" /\ branches = <<>>

\* C7 as stated: at the end of the end-to-end run the segments rendered are as
\* many as the branches ever created.
C7_SegmentsEqualBranches == EndToEnd => canvas = created

\* C7 amended: at the end of the end-to-end run the segments rendered are the
\* sum, over the branches ever created, of ceil(length / GROW_SPEED): more
\* than one per branch.
C7_SegmentsEqualOwed == EndToEnd => canvas = owed /\ canvas > created

\* C7 witness: the end of an end-to-end run whose crystal forked
C7_Witness == EndToEnd /\ created > 6

\* what the program itself holds: the bridge, the collection, the surface
program == <<drawing, lastPos, distAcc, branches, canvas, rng, planted, created>>

\* C8: in a stroke whose accumulated distance met SPAWN_DIST exactly at every
\* plant, the crystals planted since its start, the first included, are
\* 1 + floor(D / SPAWN_DIST), D the length of the path moved so far.
C8_SeedsPerDistance ==
  stroke.exact =>
    planted - stroke.base = 1 + stroke.dist \div (SPAWN_DIST * PX)

\* C8 witness: a move has taken such a stroke to its second crystal or further
C8_Witness ==
  /\ lastOp = "move"
  /\ stroke.exact
  /\ stroke.dist >= SPAWN_DIST * PX
  /\ planted - stroke.base >= 2

\* C9: a move while not drawing changes nothing the program holds, and an end
\* leaves drawing false and lastPos null, a second end in a row changing
\* nothing more.
C9_StrayMoveAndRepeatedEnd ==
  [][/\ (lastOp' = "move" /\ ~drawing => UNCHANGED program)
     /\ (lastOp' = "up" /\ inputs' # inputs => ~drawing' /\ lastPos' = NoPos)
     /\ (lastOp = "up" /\ lastOp' = "up" => UNCHANGED program)]_vars

\* C9 witness: a move arrives after an end, with a crystal growing
C9_Witness ==
  /\ lastOp = "move"
  /\ ~drawing
  /\ branches # <<>>

\* C10: after clear the collection is empty and the surface is the base
\* color, and a second clear in a row changes neither.
C10_ClearIdempotent ==
  /\ [](lastOp = "clear" => branches = <<>> /\ canvas = 0)
  /\ [][lastOp = "clear" /\ lastOp' = "clear" => UNCHANGED <<branches, canvas>>]_vars

\* C10 witness: clear was invoked twice in a row after a crystal was planted
C10_Witness ==
  /\ lastOp = "clear"
  /\ rep
  /\ planted > 0

\* C11: seedCrystal(x, y) returns between 3 and 6 branches, every one with its
\* tip at (x, y), depth MAX_DEPTH, a positive length, and a fork countdown
\* that is positive and smaller than its length.
C11_SeedCrystalShape ==
  planted = 1 =>
    /\ Len(branches) \in 3..6
    /\ \A i \in DOMAIN branches :
         /\ branches[i].x = lastPos.x
         /\ branches[i].y = lastPos.y
         /\ branches[i].depth = MAX_DEPTH
         /\ branches[i].remaining > 0
         /\ branches[i].nextBranchIn > 0
         /\ branches[i].nextBranchIn < branches[i].remaining

\* C11 witness: a crystal of six arms planted away from the origin
C11_Witness ==
  /\ planted = 1
  /\ Len(branches) = 6
  /\ lastPos = Point(5, 12)

\* the steps of the frame loop, and of the handler op
TickStep == inputs' = inputs /\ lastOp' = "tick"
InputStep(op) == inputs' = inputs + 1 /\ lastOp' = op

IsPrefix(s, t) == Len(s) <= Len(t) /\ SubSeq(t, 1, Len(s)) = s
Fresh(s, t) == SubSeq(t, Len(s) + 1, Len(t))

\* of the advance calls cs of a frame, in order: the branches left with
\* remaining > 0, and the children returned
RECURSIVE Survivors(_)
Survivors(cs) ==
  IF cs = <<>> THEN <<>>
  ELSE IF Head(cs).after.remaining > 0
       THEN <<Head(cs).after>> \o Survivors(Tail(cs))
       ELSE Survivors(Tail(cs))

RECURSIVE Newborns(_)
Newborns(cs) ==
  IF cs = <<>> THEN <<>>
  ELSE Head(cs).children \o Newborns(Tail(cs))

\* a frame advances every branch of the collection, keeps each one it leaves
\* with remaining > 0 and removes only those it has taken to 0
FrameRemovesAtZero ==
  /\ Len(calls') = Len(branches)
  /\ \A i \in DOMAIN branches :
       /\ calls'[i].before = branches[i]
       /\ calls'[i].after.remaining >= 0
  /\ IsPrefix(Survivors(calls'), branches')
  /\ Len(dropped') = Len(branches) - Len(Survivors(calls'))

\* C12 as stated: a branch leaves the collection only in the frame that takes
\* its remaining to 0; no start, move, end or clear event removes a branch.
C12_RemovedOnlyAtZero ==
  [][IF TickStep THEN FrameRemovesAtZero ELSE IsPrefix(branches, branches')]_vars

\* C12 amended: a branch leaves the collection in the frame that takes its
\* remaining to 0, or when clear empties the collection, whatever is left of
\* it; start, move and end events remove no branch.
C12_RemovedAtZeroOrByClear ==
  [][IF TickStep THEN FrameRemovesAtZero
     ELSE IF InputStep("clear")
          THEN branches' = <<>> /\ Len(dropped') = Len(branches)
          ELSE IsPrefix(branches, branches') /\ dropped' = <<>>]_vars

\* C12 witness: a frame removed a branch it had taken to 0 and kept another
\* that has length left
C12_Witness ==
  /\ lastOp = "tick"
  /\ \E i \in DOMAIN dropped : dropped[i].by = "tick"
  /\ \E c \in Calls : c.after.remaining > 0 /\ c.after = branches[1]

\* the effective step of a call
StepOf(c) == Min(c.step, c.before.remaining)

\* the countdown was > 0 before the call and is <= 0 once the effective step
\* is subtracted, depth > 1, and more than 6 pixels are left after the step
ForkDue(c) ==
  /\ c.before.nextBranchIn > 0
  /\ c.before.nextBranchIn # Infinity
  /\ c.before.nextBranchIn - StepOf(c) <= 0
  /\ c.before.depth > 1
  /\ c.before.remaining - StepOf(c) > 6 * PX

\* the countdown of the branch after the call is the one before it less the
\* step taken, if any
CountedDown(c) ==
  c.after.nextBranchIn =
    IF StepOf(c) <= 0 \/ c.before.nextBranchIn = Infinity
    THEN c.before.nextBranchIn
    ELSE c.before.nextBranchIn - StepOf(c)

\* C13: advance returns children, one or two, if and only if the countdown
\* was > 0 before the step and is <= 0 after it, depth > 1 and the remaining
\* length after the step is > 6; in every other case it returns no children
\* and the countdown is only counted down, not rescheduled.
C13_ForkIffDue ==
  \A c \in Calls :
    /\ Len(c.children) \in {1, 2} <=> ForkDue(c)
    /\ ~ForkDue(c) => c.children = <<>> /\ CountedDown(c)

\* C13 witness: a call that sprouts on one side only, with its countdown
\* reaching 0 exactly
C13_Witness ==
  \E c \in Calls :
    /\ ForkDue(c)
    /\ c.before.nextBranchIn = StepOf(c)
    /\ Len(c.children) = 1

\* C13 witness of the other cases: a countdown already at or below 0 that a
\* step takes further down, on a branch deep and long enough to fork
C13_NoForkWitness ==
  \E c \in Calls :
    /\ c.before.nextBranchIn <= 0
    /\ StepOf(c) > 0
    /\ c.before.depth > 1
    /\ c.before.remaining - StepOf(c) > 6 * PX
    /\ c.children = <<>>

\* C14: a call that forks leaves the parent, if it has more than 14 pixels
\* left, with a countdown that is positive and below what is left (35% to 70%
\* of it), and otherwise with the sentinel; a branch whose countdown is the
\* sentinel keeps it and gets no children from any advance call.
C14_RescheduledOrDisabled ==
  \A c \in Calls :
    /\ c.children # <<>> =>
         IF c.after.remaining > 14 * PX
         THEN /\ c.after.nextBranchIn > 0
              /\ c.after.nextBranchIn < c.after.remaining
              /\ c.after.nextBranchIn * 100 >= c.after.remaining * 35 - 100
              /\ c.after.nextBranchIn * 100 < c.after.remaining * 70
         ELSE c.after.nextBranchIn = Infinity
    /\ c.before.nextBranchIn = Infinity =>
         c.children = <<>> /\ c.after.nextBranchIn = Infinity

\* C14 witness: a frame in which one branch forks with 14 pixels or fewer
\* left, and another, which did so in an earlier frame, is advanced again
C14_Witness ==
  /\ \E c \in Calls :
       /\ c.children # <<>>
       /\ c.after.remaining <= 14 * PX
       /\ c.after.nextBranchIn = Infinity
  /\ \E c \in Calls :
       /\ c.before.nextBranchIn = Infinity
       /\ c.after.remaining > 0

\* C14 witness of the other case: a fork that schedules another
C14_AgainWitness ==
  \E c \in Calls :
    /\ c.children # <<>>
    /\ c.after.remaining > 14 * PX
    /\ c.after.nextBranchIn < c.after.remaining

\* C15: a tick with a non-empty collection advances every branch that was in
\* the collection at its start exactly once, by GROW_SPEED, and no other (the
\* children it creates are not advanced in it); the collection after it is
\* the advanced branches with remaining > 0, in their order, followed by all
\* the children.
C15_FrameRebuildsCollection ==
  [][TickStep /\ branches # <<>> =>
       /\ Len(calls') = Len(branches)
       /\ \A i \in DOMAIN branches :
            /\ calls'[i].before = branches[i]
            /\ calls'[i].step = GROW_SPEED * PX
       /\ branches' = Survivors(calls') \o Newborns(calls')
       /\ \A j \in DOMAIN branches' :
            j > Len(Survivors(calls')) => life'[j].segs = 0
       /\ canvas' = canvas + Len(branches)]_vars

\* C15 witness: a tick over three branches or more that removed one, kept
\* another and appended children behind it
C15_Witness ==
  /\ lastOp = "tick"
  /\ Len(calls) >= 3
  /\ dropped # <<>>
  /\ Survivors(calls) # <<>>
  /\ Newborns(calls) # <<>>
  /\ branches = Survivors(calls) \o Newborns(calls)

\* the branches of t behind those of s are one crystal at the point p
CrystalAt(s, t, p) ==
  /\ Len(Fresh(s, t)) \in 3..6
  /\ \A j \in DOMAIN Fresh(s, t) :
       /\ Fresh(s, t)[j].x = p.x
       /\ Fresh(s, t)[j].y = p.y
       /\ Fresh(s, t)[j].depth = MAX_DEPTH

\* C16: a tick with an empty collection changes nothing and renders nothing;
\* a start or a move appends the crystal it plants behind the branches
\* already in the collection and removes none, an end leaves the collection
\* alone, and the next tick advances every branch it finds in the collection,
\* so that after a tick the only branches never advanced are the children
\* that tick created.
C16_IdleAndResume ==
  /\ [](lastOp = "tick" =>
          /\ \A i \in DOMAIN branches :
               life[i].segs = 0 => i > Len(Survivors(calls))
          /\ \A i \in DOMAIN dropped : dropped[i].segs >= 1)
  /\ [][/\ TickStep /\ branches = <<>> => UNCHANGED program /\ calls' = <<>>
        /\ TickStep /\ branches # <<>> =>
             /\ Len(calls') = Len(branches)
             /\ \A i \in DOMAIN branches :
                  /\ calls'[i].before = branches[i]
                  /\ calls'[i].after.remaining < branches[i].remaining
             /\ canvas' = canvas + Len(branches)
        /\ InputStep("down") \/ InputStep("move") =>
             /\ IsPrefix(branches, branches')
             /\ IF planted' = planted THEN branches' = branches
                ELSE CrystalAt(branches, branches', lastPos')
        /\ InputStep("up") => branches' = branches]_vars

\* C16 witness: a crystal planted between two ticks, behind branches the
\* first tick had advanced, was advanced by the second
C16_Witness ==
  /\ lastOp = "tick"
  /\ planted >= 2
  /\ \E i, j \in DOMAIN branches :
       /\ i < j
       /\ branches[i].depth = MAX_DEPTH
       /\ branches[j].depth = MAX_DEPTH
       /\ life[i].segs = 2
       /\ life[j].segs = 1

\* C16 witness of the idle loop: a tick on an empty collection, after a
\* crystal was planted and cleared
C16_IdleWitness ==
  /\ lastOp = "tick"
  /\ rep
  /\ branches = <<>>
  /\ planted > 0

C18_PlantedByStartOrActiveMove ==
  [][/\ planted' # planted =>
          /\ planted' = planted + 1
          /\ InputStep("down") \/ (InputStep("move") /\ drawing)
     /\ InputStep("down") =>
          /\ drawing'
          /\ distAcc' = 0
          /\ lastPos' \in StrokePoints
          /\ planted' = planted + 1
          /\ IsPrefix(branches, branches')
          /\ CrystalAt(branches, branches', lastPos')
     /\ InputStep("up") =>
          /\ ~drawing'
          /\ lastPos' = NoPos
          /\ planted' = planted
          /\ branches' = branches
     /\ InputStep("clear") \/ TickStep => planted' = planted]_vars

\* C18 witness: an end closes a stroke that had planted its crystal at the
\* start and moved on less than SPAWN_DIST from there
C18_Witness ==
  /\ lastOp = "up"
  /\ ~drawing
  /\ distAcc > 0
  /\ planted = 1
  /\ branches # <<>>

\* C18 witness of the start: a second start, with the first crystal growing
C18_StartWitness ==
  /\ lastOp = "down"
  /\ planted = 2
  /\ distAcc = 0
  /\ \E i \in DOMAIN branches : life[i].segs = 1
  /\ \E j \in DOMAIN branches : life[j].segs = 0 /\ branches[j].x = lastPos.x

\* the distance a move step has travelled from the last position
Travelled == Hypot(lastPos'.x - lastPos.x, lastPos'.y - lastPos.y)

\* C19: a move while drawing is active adds the distance from lastPos to the
\* accumulator; if the sum is >= SPAWN_DIST it plants exactly one crystal at
\* the current point and resets the accumulator to 0, the excess discarded,
\* and otherwise plants nothing and keeps the sum; either way lastPos becomes
\* the current point.  After every handler 0 <= distAcc < SPAWN_DIST.
C19_MoveAccumulates ==
  /\ [](0 <= distAcc /\ distAcc < SPAWN_DIST * PX)
  /\ [][InputStep("move") /\ drawing /\ lastPos # NoPos =>
          /\ lastPos' \in StrokePoints
          /\ IF distAcc + Travelled >= SPAWN_DIST * PX
             THEN /\ planted' = planted + 1
                  /\ distAcc' = 0
                  /\ IsPrefix(branches, branches')
                  /\ CrystalAt(branches, branches', lastPos')
             ELSE /\ planted' = planted
                  /\ distAcc' = distAcc + Travelled
                  /\ branches' = branches]_vars

\* C19 witness: a stroke whose moves add up to more than twice SPAWN_DIST
\* has planted one crystal since its start, and its accumulator is at 0
C19_Witness ==
  /\ lastOp = "move"
  /\ drawing
  /\ stroke.dist > 2 * SPAWN_DIST * PX
  /\ planted - stroke.base = 2
  /\ distAcc = 0

\* C19 witness of a move that plants nothing: lastPos follows the pointer
C19_QuietMoveWitness ==
  /\ lastOp = "move"
  /\ drawing
  /\ distAcc = 12 * PX
  /\ lastPos = Point(5, 12)
  /\ planted - stroke.base = 1

\* C20: advance leaves the branch's curlRate, alpha, lineWidth and depth as
\* they were, whether it forks, only steps, or returns at once; of the
\* branch's fields only x, y, angle, remaining and nextBranchIn may change.
C20_StyleUnchanged ==
  \A c \in Calls :
    /\ c.after.curlRate = c.before.curlRate
    /\ c.after.alpha = c.before.alpha
    /\ c.after.lineWidth = c.before.lineWidth
    /\ c.after.depth = c.before.depth
    /\ c.after = [c.before EXCEPT !.x = c.after.x,
                                  !.y = c.after.y,
                                  !.angle = c.after.angle,
                                  !.remaining = c.after.remaining,
                                  !.nextBranchIn = c.after.nextBranchIn]

\* C20 witness: a call that forked and changed each of the five fields that
\* may change, on a branch of the dimmer style
C20_Witness ==
  \E c \in Calls :
    /\ c.children # <<>>
    /\ c.before.alpha < (88 * ALPHA_ONE) \div 100
    /\ c.after.x # c.before.x
    /\ c.after.y # c.before.y
    /\ c.after.angle # c.before.angle
    /\ c.after.remaining # c.before.remaining
    /\ c.after.nextBranchIn # c.before.nextBranchIn

====
